---- MODULE Spec2Model ----
(***************************************************************************)
(* cfn-custom-resource: one handler invocation of a CloudFormation custom  *)
(* resource.  An inbound JSON document is decoded into a                   *)
(* CustomResourceEvent, one of the constructors of CloudformationPayload   *)
(* turns the payload into a CustomResourceResponse, set_no_echo/add_data   *)
(* enrich it, and finish serializes it and hands it to the HTTP client.    *)
(*                                                                         *)
(* JSON documents are functions from keys to values.  Inbound values are   *)
(* strings; outbound values are tagged: [str |-> s], [bool |-> b],         *)
(* [obj |-> map] and Null.                                                 *)
(***************************************************************************)
EXTENDS Integers, Sequences, FiniteSets, TLC

VARIABLES
    pc,        \* position of the handler: start, decode_failed, decoded,
               \* built, sending, done
    doc,       \* the inbound JSON document delivered by the runtime
    event,     \* result of decoding doc: [ok |-> envelope] or [err |-> msg]
    ctor,      \* the constructor call that produced the builder
    built,     \* the builder as the constructor returned it
    resp,      \* the CustomResourceResponse being enriched
    calls,     \* the set_no_echo / add_data calls applied so far, in order
    requests,  \* requests handed to the HTTP client by send()
    outcome,   \* what the transport reported for the request
    result     \* value returned by finish

vars == <<pc, doc, event, ctor, built, resp, calls, requests, outcome, result>>

---------------------------------------------------------------------------
(* Bounds of the model *)

MaxCalls == 3      \* enrichment calls per invocation
NumUuids == 2      \* size of the UUID universe

Uuid == 1..NumUuids

---------------------------------------------------------------------------
(* Option and Result *)

None == [none |-> TRUE]
Some(x) == [some |-> x]
IsNone(o) == DOMAIN o = {"none"}
IsSome(o) == DOMAIN o = {"some"}

Ok(x) == [ok |-> x]
Err(e) == [err |-> e]
IsOk(r) == DOMAIN r = {"ok"}
IsErr(r) == DOMAIN r = {"err"}

Null == [null |-> TRUE]
Str(s) == [str |-> s]
Bool(b) == [bool |-> b]
Obj(m) == [obj |-> m]

---------------------------------------------------------------------------
(* serde renaming rules *)

\* First letter of a snake_case word capitalised.
Capitalize(w) ==
    CASE w = "request"  -> "Request"
      [] w = "response" -> "Response"
      [] w = "resource" -> "Resource"
      [] w = "logical"  -> "Logical"
      [] w = "physical" -> "Physical"
      [] w = "stack"    -> "Stack"
      [] w = "id"       -> "Id"
      [] w = "url"      -> "Url"
      [] w = "type"     -> "Type"
      [] w = "properties" -> "Properties"
      [] w = "status"   -> "Status"
      [] w = "reason"   -> "Reason"
      [] w = "no"       -> "No"
      [] w = "echo"     -> "Echo"
      [] w = "data"     -> "Data"

\* rename_all = "PascalCase": the words of a snake_case field name, each
\* capitalised, joined without separator.
RECURSIVE PascalCase(_)
PascalCase(words) ==
    IF words = <<>> THEN ""
    ELSE Capitalize(Head(words)) \o PascalCase(Tail(words))

\* rename_all = "UPPERCASE" on the variants of ResponseType.
UpperCase(variant) ==
    CASE variant = "Success" -> "SUCCESS"
      [] variant = "Failed"  -> "FAILED"

---------------------------------------------------------------------------
(* Uuid text forms *)

\* Canonical lower-case hyphenated form, the form Serialize writes.
Hyphenated(u) == "uuid-" \o ToString(u)
\* Upper-case form, accepted by the parser as well.
UpperHex(u) == "UUID-" \o ToString(u)

\* Deserialize for Uuid: parses the text, any accepted form.
ParseUuid(s) ==
    IF \E u \in Uuid : s \in {Hyphenated(u), UpperHex(u)}
    THEN Ok(CHOOSE u \in Uuid : s \in {Hyphenated(u), UpperHex(u)})
    ELSE Err("invalid uuid")

\* Uuid::new_v4: a random identifier; the outcomes are the identifiers that
\* do not already occur in the invocation's input.
NewV4 == {u \in Uuid : \A k \in DOMAIN doc : doc[k] \notin {Hyphenated(u), UpperHex(u)}}

---------------------------------------------------------------------------
(* Decoding: #[derive(Deserialize)] of CloudformationPayload and           *)
(* CustomResourceEvent                                                     *)

\* The fields of CloudformationPayload in declaration order: snake_case
\* words, explicit rename if any, and whether the type is Option.
PayloadFields == <<
    [field |-> "request_id", words |-> <<"request", "id">>,
     rename |-> None, optional |-> FALSE],
    [field |-> "response_url", words |-> <<"response", "url">>,
     rename |-> Some("ResponseURL"), optional |-> FALSE],
    [field |-> "resource_type", words |-> <<"resource", "type">>,
     rename |-> None, optional |-> FALSE],
    [field |-> "logical_resource_id", words |-> <<"logical", "resource", "id">>,
     rename |-> None, optional |-> FALSE],
    [field |-> "stack_id", words |-> <<"stack", "id">>,
     rename |-> None, optional |-> FALSE],
    [field |-> "physical_resource_id", words |-> <<"physical", "resource", "id">>,
     rename |-> None, optional |-> TRUE],
    [field |-> "resource_properties", words |-> <<"resource", "properties">>,
     rename |-> None, optional |-> FALSE] >>

PayloadKey(f) == IF IsSome(f.rename) THEN f.rename.some ELSE PascalCase(f.words)

\* Decoding of one field: a missing key is an error unless the field is an
\* Option; the Uuid is parsed; every other value is taken as it is.
DecodeField(d, f) ==
    IF PayloadKey(f) \notin DOMAIN d
    THEN IF f.optional THEN Ok(None) ELSE Err("missing field")
    ELSE IF f.optional
         THEN LET u == ParseUuid(d[PayloadKey(f)])
              IN  IF IsOk(u) THEN Ok(Some(u.ok)) ELSE u
         ELSE Ok(d[PayloadKey(f)])

PayloadFieldNames == {PayloadFields[i].field : i \in DOMAIN PayloadFields}
FieldNamed(n) == PayloadFields[CHOOSE i \in DOMAIN PayloadFields : PayloadFields[i].field = n]

\* Deserialize for CloudformationPayload<T>; keys that name no field are
\* ignored.
DecodePayload(d) ==
    IF \E n \in PayloadFieldNames : IsErr(DecodeField(d, FieldNamed(n)))
    THEN Err("payload")
    ELSE Ok([n \in PayloadFieldNames |-> DecodeField(d, FieldNamed(n)).ok])

\* The variants of CustomResourceEvent.
EventVariants == <<"Create", "Update", "Delete">>

\* Faulty variant: every known tag selects the first variant.
VariantOfBroken(tag) ==
    IF \E i \in DOMAIN EventVariants : EventVariants[i] = tag
    THEN Some(EventVariants[1])
    ELSE None

\* serde(tag = "RequestType"): the variant whose name is the tag's value.
VariantOf(tag) ==
    IF \E i \in DOMAIN EventVariants : EventVariants[i] = tag
    THEN Some(tag)
    ELSE None

\* Deserialize for CustomResourceEvent<T>.
DecodeEvent(d) ==
    IF "RequestType" \notin DOMAIN d THEN Err("missing tag")
    ELSE IF IsNone(VariantOf(d["RequestType"])) THEN Err("unknown variant")
    ELSE LET p == DecodePayload(d)
         IN  IF IsErr(p) THEN p
             ELSE Ok([variant |-> VariantOf(d["RequestType"]).some, payload |-> p.ok])

---------------------------------------------------------------------------
(* Response construction: impl CloudformationPayload                       *)

\* Faulty variant: the inbound id is ignored and one is always generated.
UnwrapOrElseBroken(opt, generated) == generated

\* Option::unwrap_or_else: the contained value, or the generated one.
UnwrapOrElse(opt, generated) == IF IsNone(opt) THEN generated ELSE opt.some

respond_with_success(self, reason, generated) ==
    [status               |-> "Success",
     reason               |-> reason,
     physical_resource_id |-> UnwrapOrElse(self.physical_resource_id, generated),
     stack_id             |-> self.stack_id,
     request_id           |-> self.request_id,
     logical_resource_id  |-> self.logical_resource_id,
     response_url         |-> self.response_url,
     no_echo              |-> None,
     data                 |-> None]

respond_with_failure(self, reason, generated) ==
    [status               |-> "Failed",
     reason               |-> reason,
     physical_resource_id |-> UnwrapOrElse(self.physical_resource_id, generated),
     stack_id             |-> self.stack_id,
     request_id           |-> self.request_id,
     logical_resource_id  |-> self.logical_resource_id,
     response_url         |-> self.response_url,
     no_echo              |-> None,
     data                 |-> None]

\* An error value has two text forms: Display (its description) and Debug
\* (its structure).
DisplayFmt(e) == e.display
DebugFmt(e) == e.debug

\* The reason is format!("{:?}", e).
respond_with(self, res, generated) ==
    IF IsOk(res)
    THEN respond_with_success(self, "Success", generated)
    ELSE respond_with_failure(self, DebugFmt(res.err), generated)

---------------------------------------------------------------------------
(* Enrichment: impl CustomResourceResponse                                 *)

\* Faulty variant: setting the flag drops the data.
set_no_echo_broken(self, value) ==
    [self EXCEPT !.no_echo = Some(value), !.data = None]

set_no_echo(self, value) == [self EXCEPT !.no_echo = Some(value)]

\* HashMap::insert: the key is bound to the value, other keys are kept.
Insert(m, key, value) ==
    [k \in DOMAIN m \cup {key} |-> IF k = key THEN value ELSE m[k]]

EmptyMap == [k \in {} |-> ""]

add_data(self, key, value) ==
    LET m == IF IsNone(self.data) THEN EmptyMap ELSE self.data.some
    IN  [self EXCEPT !.data = Some(Insert(m, key, value))]

---------------------------------------------------------------------------
(* Serialization: #[derive(Serialize)] of CustomResourceResponse           *)

\* Faulty variant: response_url without serde(skip).
ResponseFieldsBroken == <<
    [field |-> "status", words |-> <<"status">>, skip |-> FALSE],
    [field |-> "reason", words |-> <<"reason">>, skip |-> FALSE],
    [field |-> "physical_resource_id", words |-> <<"physical", "resource", "id">>, skip |-> FALSE],
    [field |-> "stack_id", words |-> <<"stack", "id">>, skip |-> FALSE],
    [field |-> "request_id", words |-> <<"request", "id">>, skip |-> FALSE],
    [field |-> "logical_resource_id", words |-> <<"logical", "resource", "id">>, skip |-> FALSE],
    [field |-> "no_echo", words |-> <<"no", "echo">>, skip |-> FALSE],
    [field |-> "data", words |-> <<"data">>, skip |-> FALSE],
    [field |-> "response_url", words |-> <<"response", "url">>, skip |-> FALSE] >>

\* The fields of CustomResourceResponse in declaration order, with the
\* serde(skip) attribute.
ResponseFields == <<
    [field |-> "status", words |-> <<"status">>, skip |-> FALSE],
    [field |-> "reason", words |-> <<"reason">>, skip |-> FALSE],
    [field |-> "physical_resource_id", words |-> <<"physical", "resource", "id">>, skip |-> FALSE],
    [field |-> "stack_id", words |-> <<"stack", "id">>, skip |-> FALSE],
    [field |-> "request_id", words |-> <<"request", "id">>, skip |-> FALSE],
    [field |-> "logical_resource_id", words |-> <<"logical", "resource", "id">>, skip |-> FALSE],
    [field |-> "no_echo", words |-> <<"no", "echo">>, skip |-> FALSE],
    [field |-> "data", words |-> <<"data">>, skip |-> FALSE],
    [field |-> "response_url", words |-> <<"response", "url">>, skip |-> TRUE] >>

\* The JSON value of one field: the status by its renamed variant, the
\* Uuid in hyphenated form, Option::None as null.
FieldJson(r, field) ==
    CASE field = "status" -> Str(UpperCase(r.status))
      [] field = "reason" -> Str(r.reason)
      [] field = "physical_resource_id" -> Str(Hyphenated(r.physical_resource_id))
      [] field = "stack_id" -> Str(r.stack_id)
      [] field = "request_id" -> Str(r.request_id)
      [] field = "logical_resource_id" -> Str(r.logical_resource_id)
      [] field = "no_echo" -> IF IsNone(r.no_echo) THEN Null ELSE Bool(r.no_echo.some)
      [] field = "data" -> IF IsNone(r.data) THEN Null ELSE Obj(r.data.some)
      [] field = "response_url" -> Str(r.response_url)

\* The keys written for a response: one per field not skipped, the field
\* name renamed by rename_all = "PascalCase"; each with its field.
SerializedKeys ==
    LET kept == {i \in DOMAIN ResponseFields : ~ResponseFields[i].skip}
        keyOf(i) == PascalCase(ResponseFields[i].words)
    IN  [k \in {keyOf(i) : i \in kept} |->
            ResponseFields[CHOOSE i \in kept : keyOf(i) = k].field]

\* The JSON object written for a response.
Serialize(r) == [k \in DOMAIN SerializedKeys |-> FieldJson(r, SerializedKeys[k])]

---------------------------------------------------------------------------
(* Upload: CustomResourceResponse::finish                                  *)

\* client.post(&self.response_url).json(&self)
BuildRequest(r) == [method |-> "POST", url |-> r.response_url, body |-> Serialize(r)]

\* What the transport can report for one request: a failure to execute it,
\* or a response with its HTTP status.
StatusCodes == {200, 204, 500}
TransportOutcomes ==
    {[error |-> e] : e \in {"connect"}} \cup {[status |-> s] : s \in StatusCodes}

\* send().await: an error only when the request could not be executed; a
\* response of any status is Ok(response).
SendResult(o) == IF "error" \in DOMAIN o THEN Err(o.error) ELSE Ok(o.status)

\* send().await?; Ok(())
FinishResult(o) == IF IsErr(SendResult(o)) THEN SendResult(o) ELSE Ok("unit")

---------------------------------------------------------------------------
(* Inputs *)

Urls == {"https://bucket/one", "https://bucket/two"}
Reasons == {"all done"}
DataKeys == {"k1", "k2"}
DataValues == {"v1", "https://bucket/one"}
Errors == {[display |-> "boom", debug |-> "MyError { code: 1 }"],
           [display |-> "denied", debug |-> "denied"]}
Results == {Ok("value")} \cup {Err(e) : e \in Errors}

Tags == {"Create", "Update", "Delete", "create", "Replace"}
PhysicalTexts == {Hyphenated(u) : u \in Uuid} \cup {UpperHex(1), "not-a-uuid"}

CommonFields(url) ==
    [RequestId |-> "req-1", ResponseURL |-> url, ResourceType |-> "Custom::X",
     LogicalResourceId |-> "Name", StackId |-> "arn:stack",
     ResourceProperties |-> "props"]

Without(d, key) == [k \in DOMAIN d \ {key} |-> d[k]]

SampleDoc == ("RequestType" :> "Create") @@ CommonFields("https://bucket/one")

Docs ==
    {t @@ p @@ CommonFields(url) :
        t \in {EmptyMap} \cup {"RequestType" :> x : x \in Tags},
        p \in {EmptyMap} \cup {"PhysicalResourceId" :> x : x \in PhysicalTexts},
        url \in {"https://bucket/one"}}
    \cup {Without(SampleDoc, k) : k \in DOMAIN SampleDoc}
    \cup {("ServiceToken" :> "arn:lambda") @@ SampleDoc,
          ("ResponseURL" :> "https://bucket/two") @@ SampleDoc,
          ("RequestId" :> Hyphenated(1)) @@ SampleDoc}

---------------------------------------------------------------------------
(* The handler invocation *)

Init ==
    /\ pc = "start"
    /\ doc \in Docs
    /\ event = None
    /\ ctor = None
    /\ built = None
    /\ resp = None
    /\ calls = <<>>
    /\ requests = <<>>
    /\ outcome = None
    /\ result = None

\* serde_json::from_str::<CustomResourceEvent<T>>
Decode ==
    /\ pc = "start"
    /\ event' = DecodeEvent(doc)
    /\ pc' = IF IsOk(DecodeEvent(doc)) THEN "decoded" ELSE "decode_failed"
    /\ UNCHANGED <<doc, ctor, built, resp, calls, requests, outcome, result>>

Constructed(name, arg, r) ==
    /\ ctor' = [name |-> name, arg |-> arg]
    /\ built' = r
    /\ resp' = r
    /\ pc' = "built"
    /\ UNCHANGED <<doc, event, calls, requests, outcome, result>>

RespondWithSuccess ==
    /\ pc = "decoded"
    /\ \E reason \in Reasons, g \in NewV4 :
          Constructed("respond_with_success", reason,
                      respond_with_success(event.ok.payload, reason, g))

RespondWithFailure ==
    /\ pc = "decoded"
    /\ \E reason \in Reasons, g \in NewV4 :
          Constructed("respond_with_failure", reason,
                      respond_with_failure(event.ok.payload, reason, g))

RespondWith ==
    /\ pc = "decoded"
    /\ \E res \in Results, g \in NewV4 :
          Constructed("respond_with", res, respond_with(event.ok.payload, res, g))

SetNoEcho ==
    /\ pc = "built"
    /\ Len(calls) < MaxCalls
    /\ \E value \in BOOLEAN :
          /\ resp' = set_no_echo(resp, value)
          /\ calls' = Append(calls, [op |-> "set_no_echo", flag |-> value])
    /\ UNCHANGED <<pc, doc, event, ctor, built, requests, outcome, result>>

AddData ==
    /\ pc = "built"
    /\ Len(calls) < MaxCalls
    /\ \E key \in DataKeys, value \in DataValues :
          /\ resp' = add_data(resp, key, value)
          /\ calls' = Append(calls, [op |-> "add_data", key |-> key, value |-> value])
    /\ UNCHANGED <<pc, doc, event, ctor, built, requests, outcome, result>>

\* finish, up to the suspension at send().await: the request is handed to
\* the client.
Finish ==
    /\ pc = "built"
    /\ requests' = Append(requests, BuildRequest(resp))
    /\ pc' = "sending"
    /\ UNCHANGED <<doc, event, ctor, built, resp, calls, outcome, result>>

\* Faulty variant: a failed request is issued again.
SendCompletesRetrying ==
    /\ pc = "sending"
    /\ \E o \in TransportOutcomes :
          /\ outcome' = o
          /\ result' = FinishResult(o)
          /\ requests' = IF IsErr(FinishResult(o))
                         THEN Append(requests, BuildRequest(resp))
                         ELSE requests
    /\ pc' = "done"
    /\ UNCHANGED <<doc, event, ctor, built, resp, calls>>

\* finish, from the completion of send().await to its return.
SendCompletes ==
    /\ pc = "sending"
    /\ \E o \in TransportOutcomes :
          /\ outcome' = o
          /\ result' = FinishResult(o)
    /\ pc' = "done"
    /\ UNCHANGED <<doc, event, ctor, built, resp, calls, requests>>

Next ==
    \/ Decode
    \/ RespondWithSuccess
    \/ RespondWithFailure
    \/ RespondWith
    \/ SetNoEcho
    \/ AddData
    \/ Finish
    \/ SendCompletes

Spec == Init /\ [][Next]_vars

---------------------------------------------------------------------------
(* Properties *)

HasBuilder == pc \in {"built", "sending", "done"}

Payload == event.ok.payload

AddCalls == SelectSeq(calls, LAMBDA c : c.op = "add_data")
NoEchoCalls == SelectSeq(calls, LAMBDA c : c.op = "set_no_echo")

\* The association a sequence of add_data calls leaves: every key
\* inserted, bound to the value of the last call naming it.
LastWritten(adds) ==
    [k \in {adds[i].key : i \in DOMAIN adds} |->
        LET last == CHOOSE i \in DOMAIN adds :
                        /\ adds[i].key = k
                        /\ \A j \in DOMAIN adds : adds[j].key = k => j <= i
        IN  adds[last].value]

ResponseKeys ==
    {"Status", "Reason", "PhysicalResourceId", "StackId", "RequestId",
     "LogicalResourceId", "NoEcho", "Data"}

\* C1: whichever constructor built the response, its physical id is the
\* inbound one when the payload has one and otherwise a generated one that
\* occurs nowhere in the input; enrichment keeps it, and it is the
\* PhysicalResourceId of the document handed to the client by finish.
PhysicalIdPolicy ==
    HasBuilder =>
        /\ IsNone(Payload.physical_resource_id) =>
              \A k \in DOMAIN doc : doc[k] # Hyphenated(built.physical_resource_id)
        /\ IsSome(Payload.physical_resource_id) =>
              built.physical_resource_id = Payload.physical_resource_id.some
        /\ ("PhysicalResourceId" \in DOMAIN doc) = IsSome(Payload.physical_resource_id)
        /\ resp.physical_resource_id = built.physical_resource_id
        /\ \A i \in DOMAIN requests :
              requests[i].body["PhysicalResourceId"]
                  = Str(Hyphenated(built.physical_resource_id))

PhysicalIdGenerated ==
    /\ pc = "done"
    /\ "PhysicalResourceId" \notin DOMAIN doc
    /\ ctor.name = "respond_with"
    /\ Len(requests) = 1

\* C2: finish returns success exactly when the transport answered with a
\* 2xx status; a non-2xx status or a failure to execute the request is an
\* error.
FinishOkIffStatus2xx ==
    pc = "done" =>
        (IsOk(result) <=> ("status" \in DOMAIN outcome /\ outcome.status \in 200..299))

\* C3: the serialized body has no Data key when add_data was never called,
\* and otherwise Data holds exactly the inserted keys, each with the value
\* of the last add_data call for it.
DataOmittedUntilAdded ==
    HasBuilder =>
        LET body == Serialize(resp)
        IN  IF AddCalls = <<>>
            THEN "Data" \notin DOMAIN body
            ELSE "Data" \in DOMAIN body /\ body["Data"] = Obj(LastWritten(AddCalls))

\* C4: the serialized body has no NoEcho key when set_no_echo was never
\* called, and otherwise NoEcho is the argument of the last set_no_echo
\* call.
NoEchoOmittedUntilSet ==
    HasBuilder =>
        LET body == Serialize(resp)
        IN  IF NoEchoCalls = <<>>
            THEN "NoEcho" \notin DOMAIN body
            ELSE /\ "NoEcho" \in DOMAIN body
                 /\ body["NoEcho"] = Bool(NoEchoCalls[Len(NoEchoCalls)].flag)

\* C5: respond_with turns an ok result into status SUCCESS with reason
\* "Success" and an error into status FAILED with the error's text
\* (Display) form as reason; the status is written "SUCCESS" or "FAILED".
RespondWithMapping ==
    (HasBuilder /\ ctor.name = "respond_with") =>
        IF IsOk(ctor.arg)
        THEN /\ built.status = "Success"
             /\ built.reason = "Success"
             /\ Serialize(built)["Status"] = Str("SUCCESS")
        ELSE /\ built.status = "Failed"
             /\ built.reason = DisplayFmt(ctor.arg.err)
             /\ Serialize(built)["Status"] = Str("FAILED")

\* C6: every request issued by finish is a PUT to the inbound ResponseURL
\* whose body is the serialized response document.
UploadIsPutOfDocument ==
    \A i \in DOMAIN requests :
        /\ requests[i].method = "PUT"
        /\ requests[i].url = doc["ResponseURL"]
        /\ requests[i].body = Serialize(resp)

\* C7 as stated: the body has no ResponseURL key and none of its values,
\* Data entries included, is the response URL, which the builder still
\* holds.
ResponseUrlNowhereInBody ==
    HasBuilder =>
        LET body == Serialize(resp)
        IN  /\ "ResponseURL" \notin DOMAIN body
            /\ \A k \in DOMAIN body : body[k] # Str(resp.response_url)
            /\ IsSome(resp.data) =>
                  \A k \in DOMAIN resp.data.some : resp.data.some[k] # resp.response_url
            /\ resp.response_url = doc["ResponseURL"]

\* C7 as amended: the body has no ResponseURL key, its keys are those of
\* the other eight fields, and it is the same whatever URL the builder
\* holds (the held URL is not serialized; the string occurs in the body
\* only where the caller or the inbound document supplied it as another
\* field's value); the builder holds the inbound URL, the upload target.
ResponseUrlNotSerialized ==
    HasBuilder =>
        LET body == Serialize(resp)
        IN  /\ "ResponseURL" \notin DOMAIN body
            /\ DOMAIN body \subseteq ResponseKeys
            /\ \A u \in Urls \cup {""} :
                  Serialize([resp EXCEPT !.response_url = u]) = body
            /\ resp.response_url = doc["ResponseURL"]
            /\ \A i \in DOMAIN requests :
                  /\ requests[i].url = doc["ResponseURL"]
                  /\ requests[i].body = body

UrlSuppliedAsData ==
    /\ pc = "sending"
    /\ IsSome(resp.data)
    /\ \E k \in DOMAIN resp.data.some : resp.data.some[k] = resp.response_url

\* C8: a document whose RequestType is Create, Update or Delete and whose
\* fields are well formed decodes to that variant with the document's
\* fields (no PhysicalResourceId decoding to none); a document without
\* RequestType, or with any other value, yields an error.
DecodedVariantIsRequestType ==
    pc # "start" =>
        LET tagged == "RequestType" \in DOMAIN doc
            known == tagged /\ doc["RequestType"] \in {"Create", "Update", "Delete"}
            required == {"RequestId", "ResponseURL", "ResourceType",
                         "LogicalResourceId", "StackId", "ResourceProperties"}
            physical == "PhysicalResourceId" \in DOMAIN doc
            wellFormed ==
                /\ required \subseteq DOMAIN doc
                /\ physical => \E u \in Uuid :
                      doc["PhysicalResourceId"] \in {Hyphenated(u), UpperHex(u)}
        IN  /\ ~known => IsErr(event) /\ pc = "decode_failed"
            /\ (known /\ wellFormed) =>
                  /\ IsOk(event)
                  /\ event.ok.variant = doc["RequestType"]
                  /\ Payload.request_id = doc["RequestId"]
                  /\ Payload.response_url = doc["ResponseURL"]
                  /\ Payload.resource_type = doc["ResourceType"]
                  /\ Payload.logical_resource_id = doc["LogicalResourceId"]
                  /\ Payload.stack_id = doc["StackId"]
                  /\ Payload.resource_properties = doc["ResourceProperties"]
                  /\ ~physical => Payload.physical_resource_id = None
                  /\ physical =>
                        /\ IsSome(Payload.physical_resource_id)
                        /\ doc["PhysicalResourceId"] \in
                              {Hyphenated(Payload.physical_resource_id.some),
                               UpperHex(Payload.physical_resource_id.some)}

DeleteDecoded ==
    /\ pc = "decoded"
    /\ doc["RequestType"] = "Delete"
    /\ "PhysicalResourceId" \in DOMAIN doc

\* C9: an invocation hands at most one request to the client: none after
\* a decoding failure, exactly one per finish, issued when finish is called
\* and never again, whatever the transport reports; a builder is
\* constructed once per payload.
SingleUpload ==
    /\ [](/\ Len(requests) <= 1
          /\ pc \in {"start", "decode_failed", "decoded", "built"} => requests = <<>>
          /\ pc \in {"sending", "done"} => Len(requests) = 1)
    /\ [][/\ requests' # requests => (pc = "built" /\ pc' = "sending")
          /\ pc \in {"decode_failed", "sending", "done"} => requests' = requests
          /\ built' # built => pc = "decoded"
          /\ pc \in {"decode_failed", "done"} => UNCHANGED vars]_vars

UploadFailedOnce ==
    /\ pc = "done"
    /\ IsErr(result)
    /\ Len(requests) = 1

\* C10: after construction the status, reason, physical id, stack id,
\* request id, logical resource id and response URL of the builder stay as
\* constructed, the three ids and the URL being the inbound payload's;
\* set_no_echo changes only no_echo and add_data changes only data.
EnrichmentFrame ==
    /\ [](HasBuilder =>
            /\ [resp EXCEPT !.no_echo = None, !.data = None] = built
            /\ built.stack_id = Payload.stack_id
            /\ built.request_id = Payload.request_id
            /\ built.logical_resource_id = Payload.logical_resource_id
            /\ built.response_url = Payload.response_url)
    /\ [][calls' # calls =>
            LET c == calls'[Len(calls')]
            IN  IF c.op = "set_no_echo"
                THEN resp' = [resp EXCEPT !.no_echo = Some(c.flag)]
                ELSE /\ [resp' EXCEPT !.data = resp.data] = resp
                     /\ IsSome(resp'.data)]_vars

FullyEnriched ==
    /\ pc = "built"
    /\ Len(calls) = MaxCalls
    /\ IsSome(resp.no_echo)
    /\ IsSome(resp.data)

====
